---- MODULE Spec2Model ----
(***************************************************************************)
(* The Aqua execution driver (run_algorithm, run_algorithm_to_json), the   *)
(* QAOA algorithm's construction from a resolved configuration and the     *)
(* ISRES optimizer, as a state machine.  Each entry point is a pure        *)
(* operator that returns the call's outcome together with the ordered log  *)
(* of the steps it performed; one action per entry point applies it.       *)
(***************************************************************************)
EXTENDS Integers, Sequences, FiniteSets, TLC

VARIABLES
    nloptInstalled,  \* whether the nlopt library can be imported
    registered,      \* the classes discovery registered, as <<role, name>>
    file,            \* the content of algorithm.json: empty, or one configuration
    call,            \* the entry point being executed and its arguments
    outcome          \* what the call raised or returned, and the steps it took

vars == <<nloptInstalled, registered, file, call, outcome>>

(***************************************************************************)
(* Python values.  Every value carries its JSON-schema type, so that a     *)
(* schema's type check is a computation on the value.                      *)
(***************************************************************************)
None == <<"null">>
PyInt(n) == <<"integer", n>>
PyStr(s) == <<"string", s>>
PyBool(b) == <<"boolean", b>>
\* the portable (dictionary) form of an operator table
Obj(x) == <<"object", x>>
\* an in-memory Operator, as Operator.load_from_dict builds it
Operator(x) == <<"Operator", x>>

TypeOf(v) == v[1]

\* a mapping with no keys ({} in Python)
EmptyDict == [k \in {} |-> None]

\* d with key k set to v (d[k] = v in Python)
DictSet(d, k, v) == [x \in DOMAIN d \cup {k} |-> IF x = k THEN v ELSE d[x]]

\* d without key k (del d[k] in Python, k present)
DictDel(d, k) == [x \in DOMAIN d \ {k} |-> d[x]]

\* dict.get(k): the value, or None when the key is absent
DictGet(d, k) == IF k \in DOMAIN d THEN d[k] ELSE None

(***************************************************************************)
(* Component descriptors.                                                  *)
(***************************************************************************)
\* a property with no declared minimum
NoMinimum == {}

Prop(types, default, minimum, enum) ==
    [types |-> types, default |-> default, minimum |-> minimum, enum |-> enum]

QAOA_name == "QAOA.Variational"

\* QAOA.CONFIGURATION['input_schema']
QAOA_input_schema ==
    [properties |->
        ("operator_mode" :> Prop({"string"}, PyStr("matrix"), NoMinimum,
                                 {PyStr("matrix"), PyStr("paulis"), PyStr("grouped_paulis")})
         @@ "p" :> Prop({"integer"}, PyInt(1), {1}, {})
         @@ "initial_point" :> Prop({"array", "null"}, None, NoMinimum, {})
         @@ "batch_mode" :> Prop({"boolean"}, PyBool(FALSE), NoMinimum, {})),
     additionalProperties |-> FALSE]

\* QAOA.CONFIGURATION['depends']
QAOA_depends == {"optimizer"}

\* QAOA.CONFIGURATION with no default optimizer declared
QAOA_defaults_none == EmptyDict

\* QAOA.CONFIGURATION['defaults']
QAOA_defaults == ("optimizer" :> ("name" :> PyStr("COBYLA")))

ISRES_max_evals_default == 1000

\* ISRES.CONFIGURATION['input_schema']
ISRES_input_schema ==
    [properties |->
        ("max_evals" :> Prop({"integer"}, PyInt(ISRES_max_evals_default), NoMinimum, {})),
     additionalProperties |-> FALSE]

\* ISRES.CONFIGURATION['support_level']
ISRES_support_level ==
    [gradient |-> "ignored", bounds |-> "supported", initial_point |-> "required"]

COBYLA_maxiter_default == 1000

\* the COBYLA optimizer's schema
COBYLA_input_schema ==
    [properties |->
        ("maxiter" :> Prop({"integer"}, PyInt(COBYLA_maxiter_default), NoMinimum, {})
         @@ "disp" :> Prop({"boolean"}, PyBool(FALSE), NoMinimum, {})),
     additionalProperties |-> FALSE]

\* the EnergyInput input adapter's schema
EnergyInput_input_schema ==
    [properties |->
        ("qubit_op" :> Prop({"object", "null"}, None, NoMinimum, {})
         @@ "aux_ops" :> Prop({"array", "null"}, None, NoMinimum, {})),
     additionalProperties |-> FALSE]

Roles == {"algorithm", "optimizer", "input"}

\* get_pluggable_configuration(role, name), for a registered component
Descriptor(role, name) ==
    CASE role = "algorithm" /\ name = QAOA_name ->
            [schema |-> QAOA_input_schema, depends |-> QAOA_depends,
             defaults |-> QAOA_defaults]
      [] role = "optimizer" /\ name = "ISRES" ->
            [schema |-> ISRES_input_schema, depends |-> {}, defaults |-> EmptyDict]
      [] role = "optimizer" /\ name = "COBYLA" ->
            [schema |-> COBYLA_input_schema, depends |-> {}, defaults |-> EmptyDict]
      [] role = "input" /\ name = "EnergyInput" ->
            [schema |-> EnergyInput_input_schema, depends |-> {}, defaults |-> EmptyDict]

(***************************************************************************)
(* Discovery and the registry.                                             *)
(***************************************************************************)
NotDiscovered == {<<"registry", "empty">>}

\* importing the isres module: "ok", or the exception its top level raises
isres_import(nlopt) == IF nlopt THEN "ok" ELSE "ImportWarning"

\* an availability check that does not look for the library
ISRES_check_pluggable_valid_always(nlopt) == TRUE

\* ISRES.check_pluggable_valid()
ISRES_check_pluggable_valid(nlopt) == nlopt

\* _discover_on_demand(): the classes registered; a module whose import
\* raises is skipped
Discover(nlopt) ==
    {<<"algorithm", QAOA_name>>, <<"optimizer", "COBYLA">>, <<"input", "EnergyInput">>}
    \cup (IF isres_import(nlopt) = "ok" THEN {<<"optimizer", "ISRES">>} ELSE {})

\* the registry after _discover_on_demand(), which discovers once
Registry(reg, nlopt) == IF reg = NotDiscovered THEN Discover(nlopt) ELSE reg

\* a registered component's availability predicate, evaluated now
Available(role, name, nlopt) ==
    IF role = "optimizer" /\ name = "ISRES" THEN ISRES_check_pluggable_valid(nlopt)
    ELSE TRUE

\* local_pluggables(role)
local_pluggables(role, reg, nlopt) ==
    {c[2] : c \in {d \in reg : d[1] = role /\ Available(role, d[2], nlopt)}}

\* the listing of every role
Listing(reg, nlopt) == [role \in Roles |-> local_pluggables(role, reg, nlopt)]

\* get_pluggable_class(role, name): whether the lookup finds a class
get_pluggable_class(role, name, listing) ==
    TypeOf(name) = "string" /\ name[2] \in listing[role]

(***************************************************************************)
(* Configuration resolution (InputParser.parse, validate_merge_defaults).  *)
(***************************************************************************)
\* InputParser.get_section_property(section, property)
get_section_property(sections, section, property) ==
    IF section \in DOMAIN sections THEN DictGet(sections[section], property) ELSE None

\* the listed component a role's section selects, or "" when it names none
Selected(sections, role, listing) ==
    LET n == get_section_property(sections, role, "name")
    IN IF TypeOf(n) = "string" /\ n[2] \in listing[role] THEN n[2] ELSE ""

\* the default sections the selected algorithm declares for its dependencies
DependencyDefaults(algorithm) ==
    IF algorithm = "" THEN EmptyDict
    ELSE [r \in DOMAIN Descriptor("algorithm", algorithm).defaults
                \cap Descriptor("algorithm", algorithm).depends |->
             Descriptor("algorithm", algorithm).defaults[r]]

\* a section completed from a default section: what the caller set is kept
Completed(own, default) ==
    [k \in DOMAIN own \cup DOMAIN default |->
        IF k \in DOMAIN own THEN own[k] ELSE default[k]]

\* whether the section of a depended-upon role is absent or names no component
Unselected(sections, r) ==
    r \notin DOMAIN sections \/ "name" \notin DOMAIN sections[r]

\* step 1: a depended-upon section that is absent, or names no component,
\* takes the depending component's declared default
ApplyDependencyDefaults(sections, d) ==
    [s \in DOMAIN sections \cup {r \in DOMAIN d : Unselected(sections, r)} |->
        IF s \in DOMAIN d /\ Unselected(sections, s)
        THEN Completed(IF s \in DOMAIN sections THEN sections[s] ELSE EmptyDict, d[s])
        ELSE sections[s]]

MergeDependencies(sections, listing) ==
    ApplyDependencyDefaults(sections,
        DependencyDefaults(Selected(sections, "algorithm", listing)))

\* step 2: every property the section leaves out takes its schema default
MergeDefaults(section, schema) ==
    [k \in DOMAIN section \cup DOMAIN schema.properties |->
        IF k \in DOMAIN section THEN section[k] ELSE schema.properties[k].default]

\* whether value v violates the declared property p
ViolatesProperty(v, p) ==
    \/ TypeOf(v) \notin p.types
    \/ TypeOf(v) = "integer" /\ \E m \in p.minimum : v[2] < m
    \/ p.enum # {} /\ v \notin p.enum

\* step 3: the properties of a merged section that violate its schema
Violations(section, schema) ==
    {k \in DOMAIN section \ {"name"} :
        IF k \notin DOMAIN schema.properties
        THEN ~schema.additionalProperties
        ELSE ViolatesProperty(section[k], schema.properties[k])}

\* whether section s has a schema: it is a role's section and selects a
\* listed component.  A section that names no listed component is neither
\* completed nor validated: run_algorithm checks the algorithm's name itself
\* once the configuration is resolved, and the algorithm looks its
\* optimizer up when it is built.
HasSchema(sections, s, listing) ==
    s \in Roles /\ Selected(sections, s, listing) # ""

SchemaOf(sections, s, listing) ==
    Descriptor(s, Selected(sections, s, listing)).schema

MergeSections(sections, listing) ==
    [s \in DOMAIN sections |->
        IF HasSchema(sections, s, listing)
        THEN MergeDefaults(sections[s], SchemaOf(sections, s, listing))
        ELSE sections[s]]

Validated(sections, listing) ==
    [ok |-> \A s \in DOMAIN sections :
                HasSchema(sections, s, listing)
                => Violations(sections[s], SchemaOf(sections, s, listing)) = {},
     sections |-> sections]

\* a resolution that merges the schema defaults before the dependency defaults
Resolve_defaults_first(raw, listing) ==
    Validated(MergeDependencies(MergeSections(raw, listing), listing), listing)

\* parse() and validate_merge_defaults(): the resolved sections, and whether
\* they passed validation
Resolve(raw, listing) ==
    Validated(MergeSections(MergeDependencies(raw, listing), listing), listing)

(***************************************************************************)
(* Input artifacts and backends.                                           *)
(***************************************************************************)
\* EnergyInput(qubit_op, aux_ops)
EnergyInput(qubit_op, aux_ops) == <<"EnergyInput", qubit_op, aux_ops>>

\* Aer.get_backend(name): a BaseBackend instance
BackendObject(name) == <<"BaseBackend", name>>

\* isinstance(backend, BaseBackend)
IsBaseBackend(backend) == TypeOf(backend) = "BaseBackend"

\* convert_json_to_dict followed by Operator.load_from_dict, on one value
FromPortable(v) == IF TypeOf(v) = "object" THEN Operator(v[2]) ELSE v

\* Operator.save_to_dict followed by convert_dict_to_json, on one value
ToPortable(v) == IF TypeOf(v) = "Operator" THEN Obj(v[2]) ELSE v

\* EnergyInput.from_params(params)
EnergyInput_from_params(input_params) ==
    EnergyInput(FromPortable(DictGet(input_params, "qubit_op")),
                FromPortable(DictGet(input_params, "aux_ops")))

\* EnergyInput.to_params() followed by convert_dict_to_json
EnergyInput_to_params(algo_input) ==
    ("qubit_op" :> ToPortable(algo_input[2]) @@ "aux_ops" :> ToPortable(algo_input[3]))

(***************************************************************************)
(* The log of a call: the steps performed, in order, each with the         *)
(* component it concerns and the arguments it was handed.                  *)
(***************************************************************************)
Event(step, name, args) == [step |-> step, name |-> name, args |-> args]

NoError == "none"

Raised(error, events) == [error |-> error, events |-> events]

Returned(events) == [error |-> NoError, events |-> events]

(***************************************************************************)
(* QAOA.init_params                                                        *)
(***************************************************************************)
\* an optimizer construction that is also handed the input artifact
QAOA_optimizer_args_with_input(opt_params, algo_input) == <<opt_params, algo_input>>

\* the arguments of get_pluggable_class(OPTIMIZER, name).init_params
QAOA_optimizer_args(opt_params, algo_input) == <<opt_params>>

\* lines 113-120: the optimizer, then the algorithm instance
QAOA_build(params, opt_params, algo_input, listing) ==
    IF ~get_pluggable_class("optimizer", opt_params["name"], listing)
    THEN Raised("ComponentNotFoundError", <<>>)
    ELSE Returned(<<Event("optimizer", opt_params["name"][2],
                          QAOA_optimizer_args(opt_params, algo_input)),
                    Event("algorithm", QAOA_name, <<params, algo_input>>)>>)

QAOA_init_params(params, algo_input, listing) ==
    IF algo_input = None
    THEN Raised("AquaError: EnergyInput instance is required.", <<>>)
    ELSE IF "optimizer" \notin DOMAIN params
    THEN Raised("TypeError", <<>>)
    ELSE IF "name" \notin DOMAIN params["optimizer"]
    THEN Raised("KeyError", <<>>)
    ELSE QAOA_build(params, params["optimizer"], algo_input, listing)

(***************************************************************************)
(* run_algorithm                                                           *)
(***************************************************************************)
NoBackendCfg == [is_none |-> TRUE, kwargs |-> EmptyDict]

BackendCfg(kwargs) == [is_none |-> FALSE, kwargs |-> kwargs]

\* keyword arguments that carry the backend name alone
backend_cfg_named_only(sections, backend_name) ==
    IF backend_name # None THEN BackendCfg("backend" :> backend_name)
    ELSE NoBackendCfg

\* lines 66-70: the keyword arguments taken from the backend section
backend_cfg_named(sections, backend_name) ==
    IF backend_name # None
    THEN BackendCfg(DictSet(DictDel(sections["backend"], "name"), "backend", backend_name))
    ELSE NoBackendCfg

\* lines 72-76: a backend object given to the call takes the place of the name
backend_cfg_with(named, backend) ==
    IF backend # None /\ IsBaseBackend(backend)
    THEN BackendCfg(DictSet(named.kwargs, "backend", backend))
    ELSE named

\* lines 66-76: the keyword arguments of setup_quantum_backend
backend_cfg_of(sections, backend) ==
    backend_cfg_with(
        backend_cfg_named(sections, get_section_property(sections, "backend", "name")),
        backend)

\* get_pluggable_class(INPUT, input_name).from_params(input_params)
input_from_section(section, input_name, listing) ==
    IF ~get_pluggable_class("input", input_name, listing)
    THEN [error |-> "ComponentNotFoundError", events |-> <<>>, algo_input |-> None]
    ELSE [error |-> NoError,
          events |-> <<Event("input", input_name[2], <<DictDel(section, "name")>>)>>,
          algo_input |-> EnergyInput_from_params(DictDel(section, "name"))]

\* lines 78-84: the artifact the algorithm is built with
algo_input_of(sections, algo_input, listing) ==
    IF algo_input # None
    THEN [error |-> NoError, events |-> <<>>, algo_input |-> algo_input]
    ELSE IF get_section_property(sections, "input", "name") = None
    THEN [error |-> NoError, events |-> <<>>, algo_input |-> None]
    ELSE input_from_section(sections["input"],
                            get_section_property(sections, "input", "name"), listing)

WithEvents(events, result) == [result EXCEPT !.events = events \o @]

\* a driver that sets the backend up after the execution
run_built_setup_after_run(built, sections, cfg) ==
    IF built.error # NoError THEN built
    ELSE Returned(built.events
                  \o <<Event("random_seed", QAOA_name,
                             <<get_section_property(sections, "problem", "random_seed")>>)>>
                  \o <<Event("run", QAOA_name, <<>>)>>
                  \o (IF cfg.is_none THEN <<>>
                      ELSE <<Event("backend", QAOA_name, <<cfg.kwargs>>)>>))

\* lines 89-93: seeding, backend setup and execution of the built algorithm
run_built(built, sections, cfg) ==
    IF built.error # NoError THEN built
    ELSE Returned(built.events
                  \o <<Event("random_seed", QAOA_name,
                             <<get_section_property(sections, "problem", "random_seed")>>)>>
                  \o (IF cfg.is_none THEN <<>>
                      ELSE <<Event("backend", QAOA_name, <<cfg.kwargs>>)>>)
                  \o <<Event("run", QAOA_name, <<>>)>>)

\* lines 86-93
run_with_input(sections, cfg, inp, listing) ==
    IF inp.error # NoError THEN Raised(inp.error, inp.events)
    ELSE WithEvents(inp.events,
                    run_built(QAOA_init_params(sections, inp.algo_input, listing),
                              sections, cfg))

\* a driver that builds the input adapter before the algorithm name is checked
run_named_input_first(sections, algo_name, algo_input, backend, listing) ==
    WithEvents(algo_input_of(sections, algo_input, listing).events,
        IF algo_name = None
        THEN Raised("AquaError: Missing algorithm name", <<>>)
        ELSE IF ~(TypeOf(algo_name) = "string" /\ algo_name[2] \in listing["algorithm"])
        THEN Raised("AquaError: Algorithm missing in local algorithms", <<>>)
        ELSE run_with_input(sections, backend_cfg_of(sections, backend),
                 [algo_input_of(sections, algo_input, listing) EXCEPT !.events = <<>>],
                 listing))

\* lines 59-93
run_named(sections, algo_name, algo_input, backend, listing) ==
    IF algo_name = None
    THEN Raised("AquaError: Missing algorithm name", <<>>)
    ELSE IF ~(TypeOf(algo_name) = "string" /\ algo_name[2] \in listing["algorithm"])
    THEN Raised("AquaError: Algorithm missing in local algorithms", <<>>)
    ELSE run_with_input(sections, backend_cfg_of(sections, backend),
                        algo_input_of(sections, algo_input, listing), listing)

\* lines 57-93, once the configuration is resolved
run_resolved(r, algo_input, backend, listing) ==
    IF ~r.ok THEN Raised("ConfigurationError", <<>>)
    ELSE WithEvents(<<Event("resolve", "", <<r.sections>>)>>,
                    run_named(r.sections,
                              get_section_property(r.sections, "algorithm", "name"),
                              algo_input, backend, listing))

run_algorithm(params, algo_input, backend, listing) ==
    run_resolved(Resolve(params, listing), algo_input, backend, listing)

(***************************************************************************)
(* run_algorithm_to_json                                                   *)
(***************************************************************************)
\* a persisted input section without the component name
algo_params_of_nameless(sections, algo_input) ==
    IF algo_input # None
    THEN DictSet(sections, "input", EnergyInput_to_params(algo_input))
    ELSE sections

\* lines 120-126: what is written
algo_params_of(sections, algo_input) ==
    IF algo_input # None
    THEN DictSet(sections, "input",
                 DictSet(EnergyInput_to_params(algo_input), "name", PyStr(algo_input[1])))
    ELSE sections

\* lines 120-134, once the configuration is resolved
persist_resolved(r, algo_input) ==
    IF ~r.ok THEN Raised("ConfigurationError", <<>>)
    ELSE Returned(<<Event("resolve", "", <<r.sections>>),
                    Event("write", "algorithm.json",
                          <<algo_params_of(r.sections, algo_input)>>)>>)

run_algorithm_to_json(params, algo_input, listing) ==
    persist_resolved(Resolve(params, listing), algo_input)

(***************************************************************************)
(* The optimizer abstraction and ISRES.optimize                            *)
(***************************************************************************)
\* Optimizer.optimize (the base class): the capability check
Optimizer_optimize(support_level, problem) ==
    IF support_level.gradient = "required" /\ problem.gradient_function = None
    THEN "OptimizerCapabilityError"
    ELSE IF support_level.bounds = "required" /\ problem.variable_bounds = None
    THEN "OptimizerCapabilityError"
    ELSE IF support_level.initial_point = "required" /\ problem.initial_point = None
    THEN "OptimizerCapabilityError"
    ELSE NoError

\* a call of minimize that is also handed the gradient
ISRES_minimize_args_with_gradient(problem, options) ==
    ("name" :> PyStr("GN_ISRES")
     @@ "objective_function" :> problem.objective_function
     @@ "gradient_function" :> problem.gradient_function
     @@ "variable_bounds" :> problem.variable_bounds
     @@ "initial_point" :> problem.initial_point)
    @@ options

\* the arguments ISRES.optimize hands to minimize
ISRES_minimize_args(problem, options) ==
    ("name" :> PyStr("GN_ISRES")
     @@ "objective_function" :> problem.objective_function
     @@ "variable_bounds" :> problem.variable_bounds
     @@ "initial_point" :> problem.initial_point)
    @@ options

\* an optimize that enters minimize before the capability check
ISRES_optimize_unchecked(problem, options, n) ==
    [error |-> Optimizer_optimize(ISRES_support_level, problem), evals |-> n,
     passed |-> ISRES_minimize_args(problem, options)]

\* ISRES.optimize, where minimize evaluates the objective n times
ISRES_optimize(problem, options, n) ==
    IF Optimizer_optimize(ISRES_support_level, problem) # NoError
    THEN [error |-> Optimizer_optimize(ISRES_support_level, problem), evals |-> 0,
          passed |-> EmptyDict]
    ELSE [error |-> NoError, evals |-> n,
          passed |-> ISRES_minimize_args(problem, options)]

(***************************************************************************)
(* Inputs.                                                                 *)
(***************************************************************************)
\* evaluations of the objective followed in one optimize call
MaxEvals == 2

Min(a, b) == IF a < b THEN a ELSE b

AlgorithmChoices ==
    {EmptyDict,
     "algorithm" :> EmptyDict,
     "algorithm" :> ("name" :> PyStr(QAOA_name)),
     "algorithm" :> ("name" :> PyStr(QAOA_name) @@ "p" :> PyInt(2)),
     "algorithm" :> ("name" :> PyStr(QAOA_name) @@ "p" :> PyInt(0)),
     "algorithm" :> ("name" :> PyStr(QAOA_name) @@ "depth" :> PyInt(3)),
     "algorithm" :> ("name" :> PyStr(QAOA_name) @@ "operator_mode" :> PyStr("sparse")),
     "algorithm" :> ("name" :> PyStr("Grover"))}

OptimizerChoices ==
    {EmptyDict,
     "optimizer" :> EmptyDict,
     "optimizer" :> ("maxiter" :> PyInt(5)),
     "optimizer" :> ("name" :> PyStr("COBYLA")),
     "optimizer" :> ("name" :> PyStr("COBYLA") @@ "max_evals" :> PyInt(2)),
     "optimizer" :> ("name" :> PyStr("ISRES")),
     "optimizer" :> ("name" :> PyStr("ISRES") @@ "max_evals" :> PyInt(2))}

BackendChoices ==
    {EmptyDict,
     "backend" :> ("shots" :> PyInt(100)),
     "backend" :> ("name" :> PyStr("qasm_simulator")),
     "backend" :> ("name" :> PyStr("qasm_simulator") @@ "shots" :> PyInt(100)),
     "backend" :> ("name" :> PyStr("qasm_simulator") @@ "backend" :> PyStr("local"))}

InputChoices ==
    {EmptyDict,
     "input" :> ("name" :> PyStr("EnergyInput") @@ "qubit_op" :> Obj("A"))}

ProblemChoices ==
    {EmptyDict, "problem" :> ("random_seed" :> PyInt(7))}

ValidAlgorithm == "algorithm" :> ("name" :> PyStr(QAOA_name))

\* the configurations run_algorithm is called with: every algorithm section
\* with every optimizer section, and every backend section with a valid
\* algorithm section and with the algorithm sections that fail
RawConfigurations ==
    {a @@ o @@ i : a \in AlgorithmChoices, o \in OptimizerChoices, i \in InputChoices}
    \cup {ValidAlgorithm @@ b @@ i @@ p :
            b \in BackendChoices, i \in InputChoices, p \in ProblemChoices}
    \cup {a @@ b @@ i : a \in AlgorithmChoices, i \in InputChoices,
                        b \in {"backend" :> ("name" :> PyStr("qasm_simulator"))}}

\* the configurations run_algorithm_to_json is called with
JsonConfigurations ==
    {a @@ o @@ i :
        a \in {ValidAlgorithm,
               "algorithm" :> ("name" :> PyStr(QAOA_name) @@ "p" :> PyInt(0))},
        o \in {EmptyDict, "optimizer" :> ("name" :> PyStr("ISRES"))},
        i \in InputChoices}

AlgoInputs == {None, EnergyInput(Operator("B"), None)}

Backends == {None, BackendObject("statevector_simulator"), PyStr("qasm_simulator")}

Capability(v) == {None, v}

Problems ==
    [num_vars : {2},
     objective_function : {<<"function", "energy">>},
     gradient_function : Capability(<<"function", "gradient">>),
     variable_bounds : Capability(<<"array", "bounds">>),
     initial_point : Capability(<<"array", "point">>)]

OptimizerOptions ==
    {"max_evals" :> PyInt(n) : n \in {1, ISRES_max_evals_default}}

(***************************************************************************)
(* The state machine.                                                      *)
(***************************************************************************)
NoCall == [op |-> "none"]

NoOutcome == [error |-> NoError]

Init ==
    /\ nloptInstalled \in BOOLEAN
    /\ registered = NotDiscovered
    /\ file = {}
    /\ call = NoCall
    /\ outcome = NoOutcome

\* the nlopt library is installed or removed between calls
NloptChange ==
    /\ call = NoCall
    /\ nloptInstalled' = ~nloptInstalled
    /\ UNCHANGED <<registered, file, call, outcome>>

\* the listing the call sees: discovery runs on demand, once
CurrentListing == Listing(Registry(registered, nloptInstalled), nloptInstalled)

\* run_algorithm(params, algo_input, backend=backend), params given by the
\* caller or read back from the persisted file
RunAlgorithm ==
    /\ call = NoCall
    /\ \E params \in RawConfigurations \cup file, algo_input \in AlgoInputs,
          backend \in Backends :
           /\ call' = [op |-> "run_algorithm", params |-> params,
                       algo_input |-> algo_input, backend |-> backend,
                       listing |-> CurrentListing, replay |-> params \in file]
           /\ outcome' = run_algorithm(params, algo_input, backend, CurrentListing)
    /\ registered' = Registry(registered, nloptInstalled)
    /\ UNCHANGED <<nloptInstalled, file>>

\* the file after run_algorithm_to_json: written once, when nothing was raised
Written(out, old) ==
    IF out.error = NoError THEN {out.events[Len(out.events)].args[1]} ELSE old

\* run_algorithm_to_json(params, algo_input)
RunAlgorithmToJson ==
    /\ call = NoCall
    /\ \E params \in JsonConfigurations, algo_input \in AlgoInputs :
           /\ call' = [op |-> "run_algorithm_to_json", params |-> params,
                       algo_input |-> algo_input, listing |-> CurrentListing,
                       before |-> file]
           /\ outcome' = run_algorithm_to_json(params, algo_input, CurrentListing)
    /\ file' = Written(outcome', file)
    /\ registered' = Registry(registered, nloptInstalled)
    /\ UNCHANGED nloptInstalled

\* optimize(...) on an ISRES instance, whose module has been imported
Optimize ==
    /\ call = NoCall
    /\ <<"optimizer", "ISRES">> \in registered
    /\ \E problem \in Problems, options \in OptimizerOptions :
         \E n \in 1..Min(options["max_evals"][2], MaxEvals) :
            /\ call' = [op |-> "optimize", problem |-> problem, options |-> options]
            /\ outcome' = ISRES_optimize(problem, options, n)
    /\ UNCHANGED <<nloptInstalled, registered, file>>

\* the call's result or exception reaches the caller
Return ==
    /\ call # NoCall
    /\ call' = NoCall
    /\ outcome' = NoOutcome
    /\ UNCHANGED <<nloptInstalled, registered, file>>

Next ==
    \/ NloptChange
    \/ RunAlgorithm
    \/ RunAlgorithmToJson
    \/ Optimize
    \/ Return

Spec == Init /\ [][Next]_vars

(***************************************************************************)
(* Properties.  They are stated on the state a call leaves: its arguments  *)
(* (call) and what it did and returned (outcome).                          *)
(***************************************************************************)
IsRun == call.op = "run_algorithm"

IsToJson == call.op = "run_algorithm_to_json"

IsOptimize == call.op = "optimize"

HasStep(events, steps) == \E i \in 1..Len(events) : events[i].step \in steps

CountStep(events, step) == Cardinality({i \in 1..Len(events) : events[i].step = step})

\* the sections the call resolved, once it has resolved them
ResolvedSections == outcome.events[1].args[1]

HasResolved == Len(outcome.events) >= 1

ConstructionSteps == {"input", "optimizer", "algorithm", "random_seed", "backend", "run"}

\* the configurations whose run fails at lines 54-64
FailsEarly(params, listing) ==
    \/ ~Resolve(params, listing).ok
    \/ get_section_property(Resolve(params, listing).sections, "algorithm", "name") = None
    \/ Selected(Resolve(params, listing).sections, "algorithm", listing) = ""

EarlyErrors ==
    {"ConfigurationError", "AquaError: Missing algorithm name",
     "AquaError: Algorithm missing in local algorithms"}

\* C1: ISRES declares initial_point required; optimize() on a problem with no
\* initial point fails with the capability error and the objective is
\* evaluated zero times.
C1_CapabilityEnforced ==
    (IsOptimize /\ ISRES_support_level.initial_point = "required"
        /\ call.problem.initial_point = None)
    => (outcome.error = "OptimizerCapabilityError" /\ outcome.evals = 0)

C1_Witness ==
    /\ IsOptimize
    /\ call.problem.initial_point = None
    /\ call.problem.variable_bounds # None
    /\ outcome.error = "OptimizerCapabilityError"

\* C2: a run whose configuration fails resolution, has no algorithm name, or
\* names an algorithm that is not listed raises before anything is
\* constructed, set up or executed.
C2_EagerFailure ==
    (IsRun /\ FailsEarly(call.params, call.listing))
    => /\ outcome.error \in EarlyErrors
       /\ ~HasStep(outcome.events, ConstructionSteps)

C2_Witness ==
    /\ IsRun
    /\ call.algo_input = None
    /\ get_section_property(call.params, "input", "name") # None
    /\ get_section_property(call.params, "backend", "name") # None
    /\ outcome.error = "AquaError: Algorithm missing in local algorithms"
    /\ ~HasStep(outcome.events, ConstructionSteps)

\* the claimed steps of a call, in the order performed
ClaimedSteps(events) ==
    LET kept == SelectSeq(events, LAMBDA e : e.step # "random_seed")
    IN [i \in 1..Len(kept) |-> kept[i].step]

\* the order the driver's steps are claimed to take
StepOrder(inputBuilt, injected) ==
    <<"resolve">> \o (IF inputBuilt THEN <<"input">> ELSE <<>>)
    \o <<"optimizer", "algorithm">>
    \o (IF injected THEN <<"backend">> ELSE <<>>) \o <<"run">>

BackendNamed == get_section_property(ResolvedSections, "backend", "name") # None

BackendGiven == call.backend # None /\ IsBaseBackend(call.backend)

\* C3 as claimed: a successful run resolves, builds the input artifact only
\* when none was supplied, builds the optimizer before the algorithm, injects
\* the backend configuration after construction and before execution when a
\* backend section was resolved, and injects nothing when no backend section
\* was resolved; each step happens at most once.
C3_OrderAsClaimed ==
    (IsRun /\ outcome.error = NoError)
    => /\ \E injected \in BOOLEAN :
             ClaimedSteps(outcome.events) = StepOrder(call.algo_input = None, injected)
       /\ BackendNamed => HasStep(outcome.events, {"backend"})
       /\ "backend" \notin DOMAIN ResolvedSections
           => ~HasStep(outcome.events, {"backend"})

\* C3, amended: the same order, where the backend configuration is injected
\* exactly when the resolved backend section has a name or a backend object
\* was supplied to the call.
C3_StepOrder ==
    (IsRun /\ outcome.error = NoError)
    => ClaimedSteps(outcome.events)
         = StepOrder(call.algo_input = None, BackendNamed \/ BackendGiven)

C3_Witness ==
    /\ IsRun
    /\ outcome.error = NoError
    /\ call.algo_input = None
    /\ ~BackendNamed
    /\ BackendGiven
    /\ ClaimedSteps(outcome.events)
         = <<"resolve", "input", "optimizer", "algorithm", "backend", "run">>

\* the keyword arguments the run set the backend up with
SetupKwargs ==
    LET at == CHOOSE i \in 1..Len(outcome.events) : outcome.events[i].step = "backend"
    IN outcome.events[at].args[1]

\* C4 as claimed: every property of the resolved backend section other than
\* "name", a property called "backend" included, reaches the backend setup
\* with its key and value unchanged, also when a backend object is supplied.
C4_ForwardedAsClaimed ==
    (IsRun /\ outcome.error = NoError /\ BackendNamed)
    => \A k \in DOMAIN ResolvedSections["backend"] \ {"name"} :
          k \in DOMAIN SetupKwargs /\ SetupKwargs[k] = ResolvedSections["backend"][k]

\* C4, amended: every property other than "name" and "backend" is forwarded
\* with its key and value unchanged; the argument "backend" is the backend
\* object supplied to the call, or else the section's name; nothing else is
\* forwarded.
C4_Forwarded ==
    (IsRun /\ outcome.error = NoError /\ BackendNamed)
    => /\ DOMAIN SetupKwargs = (DOMAIN ResolvedSections["backend"] \ {"name"}) \cup {"backend"}
       /\ \A k \in DOMAIN ResolvedSections["backend"] \ {"name", "backend"} :
             SetupKwargs[k] = ResolvedSections["backend"][k]
       /\ SetupKwargs["backend"] = IF BackendGiven THEN call.backend
                                   ELSE ResolvedSections["backend"]["name"]

C4_Witness ==
    /\ IsRun
    /\ outcome.error = NoError
    /\ BackendNamed
    /\ BackendGiven
    /\ "shots" \in DOMAIN ResolvedSections["backend"]
    /\ SetupKwargs["shots"] = PyInt(100)

\* a component's name together with its schema's defaults
DefaultSection(name, schema) ==
    [k \in {"name"} \cup DOMAIN schema.properties |->
        IF k = "name" THEN PyStr(name) ELSE schema.properties[k].default]

OptimizerOmitted ==
    "optimizer" \notin DOMAIN call.params \/ call.params["optimizer"] = EmptyDict

\* C5: when the configuration selects QAOA and gives no optimizer section, or
\* an empty one, the resolved optimizer section is COBYLA with COBYLA's schema
\* defaults, and the algorithm's construction finds the optimizer's name.
C5_DependencyDefault ==
    ((IsRun \/ IsToJson)
        /\ get_section_property(call.params, "algorithm", "name") = PyStr(QAOA_name)
        /\ OptimizerOmitted /\ HasResolved)
    => /\ "optimizer" \in DOMAIN ResolvedSections
       /\ ResolvedSections["optimizer"] = DefaultSection("COBYLA", COBYLA_input_schema)
       /\ outcome.error \notin {"KeyError", "TypeError", "ComponentNotFoundError"}

C5_Witness ==
    /\ IsRun
    /\ "optimizer" \in DOMAIN call.params
    /\ call.params["optimizer"] = EmptyDict
    /\ outcome.error = NoError
    /\ \E i \in 1..Len(outcome.events) :
          outcome.events[i].step = "optimizer" /\ outcome.events[i].name = "COBYLA"

\* C6: resolving a resolved configuration again succeeds and returns it
\* unchanged.
C6_Idempotent ==
    ((IsRun \/ IsToJson) /\ HasResolved)
    => Resolve(ResolvedSections, call.listing)
         = [ok |-> TRUE, sections |-> ResolvedSections]

C6_Witness ==
    /\ IsRun
    /\ HasResolved
    /\ "optimizer" \notin DOMAIN call.params
    /\ "optimizer" \in DOMAIN ResolvedSections
    /\ Resolve(ResolvedSections, call.listing).sections = ResolvedSections

SelectsISRES ==
    get_section_property(call.params, "optimizer", "name") = PyStr("ISRES")

\* the errors a run raises before it looks the optimizer up
BeforeOptimizerErrors ==
    EarlyErrors \cup {"AquaError: EnergyInput instance is required."}

\* C7: while the nlopt library is absent, ISRES is not listed among the
\* optimizers and a run that selects it fails, with the component-not-found
\* error once it looks the optimizer up, and builds no ISRES instance;
\* discovery completes and the other optimizers stay listed and selectable.
C7_UnavailableExcluded ==
    /\ (registered # NotDiscovered /\ ~nloptInstalled)
        => /\ "ISRES" \notin local_pluggables("optimizer", registered, nloptInstalled)
           /\ "COBYLA" \in local_pluggables("optimizer", registered, nloptInstalled)
           /\ ~get_pluggable_class("optimizer", PyStr("ISRES"),
                                   Listing(registered, nloptInstalled))
    /\ (IsRun /\ ~nloptInstalled)
        => /\ registered # NotDiscovered
           /\ "ISRES" \notin call.listing["optimizer"]
           /\ \A i \in 1..Len(outcome.events) :
                 ~(outcome.events[i].step = "optimizer"
                   /\ outcome.events[i].name = "ISRES")
           /\ SelectsISRES
               => outcome.error \in BeforeOptimizerErrors \cup {"ComponentNotFoundError"}
           /\ ~SelectsISRES => outcome.error # "ComponentNotFoundError"

C7_Witness ==
    /\ IsRun
    /\ ~nloptInstalled
    /\ SelectsISRES
    /\ call.algo_input # None
    /\ outcome.error = "ComponentNotFoundError"
    /\ ~HasStep(outcome.events, {"optimizer", "algorithm", "run"})

\* the artifact a run's input section describes
SectionArtifact ==
    EnergyInput_from_params(DictDel(ResolvedSections["input"], "name"))

\* C8: the input artifact is handed to the algorithm's construction alone:
\* the optimizer is built from its resolved section only; an artifact
\* supplied to the call is the one the algorithm receives and no input
\* adapter is then built; a run with no artifact fails with the domain
\* error before the optimizer is built.
C8_InputRouting ==
    IsRun
    => /\ \A i \in 1..Len(outcome.events) :
             outcome.events[i].step = "optimizer"
             => outcome.events[i].args = <<ResolvedSections["optimizer"]>>
       /\ \A i \in 1..Len(outcome.events) :
             outcome.events[i].step = "algorithm"
             => outcome.events[i].args[2]
                  = IF call.algo_input # None THEN call.algo_input ELSE SectionArtifact
       /\ call.algo_input # None => ~HasStep(outcome.events, {"input"})
       /\ (/\ call.algo_input = None
           /\ ~FailsEarly(call.params, call.listing)
           /\ get_section_property(ResolvedSections, "input", "name") = None)
           => /\ outcome.error = "AquaError: EnergyInput instance is required."
              /\ ~HasStep(outcome.events, {"optimizer", "algorithm"})

C8_Witness ==
    /\ IsRun
    /\ call.algo_input # None
    /\ get_section_property(call.params, "input", "name") # None
    /\ outcome.error = NoError
    /\ CountStep(outcome.events, "optimizer") = 1
    /\ ~HasStep(outcome.events, {"input"})

\* C9: the gradient, which ISRES declares ignored, is never handed to the
\* numeric routine even when the problem has one, and a problem without
\* bounds, which ISRES declares supported, passes the capability check.
C9_IgnoredAndOptional ==
    (IsOptimize /\ ISRES_support_level.gradient = "ignored"
        /\ ISRES_support_level.bounds = "supported")
    => /\ "gradient_function" \notin DOMAIN outcome.passed
       /\ \A k \in DOMAIN outcome.passed :
             outcome.passed[k] # <<"function", "gradient">>
       /\ (call.problem.variable_bounds = None /\ call.problem.initial_point # None)
           => outcome.error = NoError

C9_Witness ==
    /\ IsOptimize
    /\ call.problem.gradient_function # None
    /\ call.problem.variable_bounds = None
    /\ outcome.error = NoError
    /\ outcome.evals >= 1
    /\ "objective_function" \in DOMAIN outcome.passed

\* what run_algorithm_to_json is to persist
PersistedForm ==
    IF call.algo_input = None THEN ResolvedSections
    ELSE [s \in DOMAIN ResolvedSections \cup {"input"} |->
            IF s = "input"
            THEN ("name" :> PyStr("EnergyInput")
                  @@ "qubit_op" :> ToPortable(call.algo_input[2])
                  @@ "aux_ops" :> ToPortable(call.algo_input[3]))
            ELSE ResolvedSections[s]]

\* C10: run_algorithm_to_json resolves and writes once and does nothing else;
\* what it writes is the resolved configuration, with the input section
\* replaced by the supplied artifact's property form and component name;
\* a later run of the persisted content without an artifact builds its
\* input from that section.
C10_Persist ==
    /\ IsToJson
        => /\ ~HasStep(outcome.events, ConstructionSteps)
           /\ CountStep(outcome.events, "write") <= 1
           /\ outcome.error = NoError
               => /\ ClaimedSteps(outcome.events) = <<"resolve", "write">>
                  /\ file = {PersistedForm}
           /\ outcome.error # NoError => file = call.before
    /\ (IsRun /\ call.replay /\ call.algo_input = None
            /\ get_section_property(call.params, "input", "name") # None
            /\ outcome.error \notin EarlyErrors)
        => /\ CountStep(outcome.events, "input") = 1
           /\ outcome.events[2]
                = Event("input", call.params["input"]["name"][2],
                        <<DictDel(call.params["input"], "name")>>)

C10_Witness ==
    /\ IsRun
    /\ call.replay
    /\ call.algo_input = None
    /\ outcome.error = NoError
    /\ outcome.events[2].step = "input"
    /\ outcome.events[2].args[1]["qubit_op"] = Obj("B")

====
